---- MODULE Spec2Model ----
(***************************************************************************)
(* Form cells of sidecar_comms: the FormCell entity of                     *)
(* sidecar_comms/form_cells/base.py (pydantic model, traitlet, comm), the  *)
(* kernel namespace of handlers/variable_explorer.py, and the parser,      *)
(* update merger and inbound dispatch that the tests import from base.py.  *)
(***************************************************************************)
EXTENDS Integers, Sequences, FiniteSets, TLC

VARIABLES cells, ns, sent, heard, last, steps

vars == <<cells, ns, sent, heard, last, steps>>

\* Number of operations explored in one behaviour.
MaxSteps == 2

\* Number of cells alive at once; identities (id(self)) are handed out in
\* order of construction.
MaxCells == 2

CellIds == 1..MaxCells

\* An identity no cell of this process has.
ForeignId == 99

(***************************************************************************)
(* Python values: str, int, list of str, None.                             *)
(***************************************************************************)
StrV(s) == [kind |-> "string", s |-> s, n |-> 0, l |-> <<>>]
IntV(n) == [kind |-> "integer", s |-> "", n |-> n, l |-> <<>>]
ListV(l) == [kind |-> "array", s |-> "", n |-> 0, l |-> l]
NoneV == [kind |-> "null", s |-> "", n |-> 0, l |-> <<>>]

DatetimeWithZone == "2023-01-01T00:00:00Z"
DatetimeCanonical == "2023-01-01T00:00"

Values ==
  { StrV(""), StrV("a"), StrV(DatetimeWithZone), StrV(DatetimeCanonical),
    IntV(0), IntV(1), ListV(<<"a">>), ListV(<<"b", "x">>) }

EmptyMap == [k \in {} |-> NoneV]

\* dict item assignment d[k] = v
MapSet(d, k, v) == [x \in DOMAIN d \cup {k} |-> IF x = k THEN v ELSE d[x]]

(***************************************************************************)
(* Schema registry (form_cells/models.py and the variants of base.py).     *)
(***************************************************************************)
\* The members of the FormCellModel union.
FormCellModel == {"datetime", "dropdown", "slider", "multiselect", "text"}

RecognizedTypes == FormCellModel \cup {"checkboxes"}

\* A registry lookup without the Custom default.
Variant_NoFallback(input_type) == input_type

Variant(input_type) ==
  IF input_type \in RecognizedTypes THEN input_type ELSE "custom"

\* The JSON-schema type of a model property (model.schema()["properties"]).
SchemaType(variant, prop) ==
  CASE prop \in {"input_type", "model_variable_name", "value_variable_name",
                 "variable_type"} -> "string"
    [] prop = "settings" -> "object"
    [] prop = "value" /\ variant \in {"text", "dropdown", "datetime"} -> "string"
    [] prop = "value" /\ variant = "slider" -> "number"
    [] prop = "value" /\ variant \in {"checkboxes", "multiselect"} -> "array"
    [] OTHER -> "any"

ModelProperties ==
  {"input_type", "model_variable_name", "value_variable_name", "value",
   "variable_type", "settings"}

\* Parsing of an ISO-8601 date-time string into its date and hour:minute.
ParseDatetime(s) ==
  CASE s = "2023-01-01T00:00:00Z" -> [ok |-> TRUE, ymd |-> "2023-01-01", hm |-> "00:00"]
    [] s = "2023-01-01T00:00" -> [ok |-> TRUE, ymd |-> "2023-01-01", hm |-> "00:00"]
    [] OTHER -> [ok |-> FALSE, ymd |-> "", hm |-> ""]

\* strftime("%Y-%m-%dT%H:%M")
FormatDatetime(d) == d.ymd \o "T" \o d.hm

\* Does the value match the declared value type of the variant?
AcceptsValue(variant, v) ==
  CASE variant = "datetime" -> v.kind = "string" /\ ParseDatetime(v.s).ok
    [] variant \in {"text", "dropdown"} -> v.kind = "string"
    [] variant = "slider" -> v.kind = "integer"
    [] variant \in {"checkboxes", "multiselect"} -> v.kind = "array"
    [] OTHER -> TRUE

\* The value stored as it was given.
CoerceValue_AsGiven(variant, v) == v

\* The value as the variant stores it.
CoerceValue(variant, v) ==
  IF variant = "datetime" THEN StrV(FormatDatetime(ParseDatetime(v.s))) ELSE v

SettingsKeys(variant) ==
  CASE variant \in {"dropdown", "checkboxes", "multiselect"} -> {"options"}
    [] variant = "slider" -> {"min", "max", "step"}
    [] variant = "text" -> {"min_length", "max_length"}
    [] OTHER -> {}

SettingKind(key) == IF key = "options" THEN "array" ELSE "integer"

\* Settings of a recognized type: no unknown key, every value of its type.
\* Custom settings are an open mapping.
ValidSettings(variant, st) ==
  \/ variant = "custom"
  \/ /\ DOMAIN st \subseteq SettingsKeys(variant)
     /\ \A k \in DOMAIN st : st[k].kind = SettingKind(k)

(***************************************************************************)
(* The world a handler runs in: the live cells by identity, the kernel     *)
(* namespace (user_ns), the messages sent over the comm, in order, and the *)
(* changes the listeners registered with observe() were called with.       *)
(***************************************************************************)
World(c, n, s, h) == [cells |-> c, ns |-> n, sent |-> s, heard |-> h]

Ok(w) == [w |-> w, err |-> "none"]
Raise(w, e) == [w |-> w, err |-> e]

\* A call that returns the value v.
Return(w, v) == [w |-> w, err |-> "none", ret |-> v]

\* handlers/variable_explorer.py: user_ns[name] = value
SetKernelVariable(w, name, value) ==
  [w EXCEPT !.ns = MapSet(w.ns, name, value)]

(***************************************************************************)
(* FormCell (form_cells/base.py).                                          *)
(***************************************************************************)
\* The pydantic model of a cell, as parsed from the constructor's kwargs.
ParentModel(variant, msg) ==
  [ input_type |-> variant,
    model_variable_name |-> msg.model_variable_name,
    value_variable_name |-> msg.model_variable_name \o "_value",
    value |-> CoerceValue(variant, msg.value),
    variable_type |-> msg.variable_type,
    settings |-> msg.settings,
    extra |-> IF variant = "custom" THEN msg.extra ELSE EmptyMap,
    ipython_shell |-> msg.ipython_shell ]

\* Default value of a traitlets Unicode() / Int() trait.
TraitDefault(schemaType) == IF schemaType = "string" THEN StrV("") ELSE IntV(0)

\* traits_to_add: one trait per string or integer property of the model, each
\* left at its default.
Traits(model) ==
  LET traits == {p \in ModelProperties :
                   SchemaType(model.input_type, p) \in {"string", "integer"}}
  IN [p \in traits |-> TraitDefault(SchemaType(model.input_type, p))]

\* _setup_traitlet: d["type"] is read for every property of the schema, a
\* KeyError for a property whose schema has no type.
SetupTraitlet(model) ==
  IF \E p \in ModelProperties : SchemaType(model.input_type, p) = "any"
  THEN [err |-> "KeyError"]
  ELSE [err |-> "none", traitlet |-> Traits(model)]

\* FormCell.__init__: the model parsed from {"input_type": type, **kwargs}, so
\* that an input_type among the kwargs wins over type, a ValidationError when
\* no member of the FormCellModel union takes it; then the traitlet observed
\* by _sync_sidecar, and the comm.
FormCellInit(type, kwargs) ==
  LET input_type == IF "input_type" \in DOMAIN kwargs
                    THEN kwargs.input_type ELSE type
      model == ParentModel(input_type, kwargs)
  IN IF \/ input_type \notin FormCellModel
        \/ ~ValidSettings(input_type, kwargs.settings)
        \/ ~AcceptsValue(input_type, kwargs.value)
     THEN [err |-> "ValidationError"]
     ELSE IF SetupTraitlet(model).err # "none"
     THEN [err |-> SetupTraitlet(model).err]
     ELSE [ err |-> "none",
            cell |-> [ model |-> model,
                       traitlet |-> SetupTraitlet(model).traitlet,
                       attrs |-> EmptyMap,
                       observers |-> <<"_sync_sidecar">> ] ]

\* Datetime, Dropdown, Slider, Multiselect and Text: each passes its type to
\* FormCell.__init__, except that Multiselect passes type to Dropdown.__init__,
\* which passes type again: a TypeError (multiple values for the keyword
\* argument type) and no cell.
SubclassInit(variant, kwargs) ==
  IF variant = "multiselect"
  THEN [err |-> "TypeError"]
  ELSE FormCellInit(variant, kwargs)

\* Checkboxes and Custom, the variants of the registry that base.py does not
\* define: the settings and the value validated against the variant's schema
\* (any settings and any value for Custom), the unknown fields kept by Custom,
\* and a traitlet with the string and integer properties.
RegistryInit(variant, kwargs) ==
  LET model == ParentModel(variant, kwargs)
  IN IF \/ ~ValidSettings(variant, kwargs.settings)
        \/ ~AcceptsValue(variant, kwargs.value)
     THEN [err |-> "ValidationError"]
     ELSE [ err |-> "none",
            cell |-> [ model |-> model,
                       traitlet |-> Traits(model),
                       attrs |-> EmptyMap,
                       observers |-> <<"_sync_sidecar">> ] ]

\* The change a trait reports to its observers.
Change(id, name, old, new) ==
  [name |-> name, old |-> old, new |-> new, owner |-> id, type |-> "change"]

\* _sync_sidecar: the change without its owner, with the cell's id, sent as
\* an update_form_cell message.
SyncSidecar(w, id, change) ==
  LET data == [k \in DOMAIN change \ {"owner"} |-> change[k]] @@ ("id" :> id)
  IN [w EXCEPT !.sent =
        Append(@, [handler |-> "update_form_cell", body |-> [data |-> data]])]

\* The observer that mirrors value changes into the bound namespace variable.
OnValueUpdate(w, id, change) ==
  IF change.name = "value"
  THEN SetKernelVariable(w, w.cells[id].model.value_variable_name, change.new)
  ELSE w

\* A listener registered with observe(): it keeps the change it is called with.
Listener(w, id, change) == [w EXCEPT !.heard = Append(@, change)]

RunObserver(w, id, observer, change) ==
  CASE observer = "_sync_sidecar" -> SyncSidecar(w, id, change)
    [] observer = "_on_value_update" -> OnValueUpdate(w, id, change)
    [] observer = "listener" -> Listener(w, id, change)
    [] OTHER -> w

\* The observers of the cell's traitlet, called in registration order.
RECURSIVE Notify(_, _, _, _)
Notify(w, id, observers, change) ==
  IF observers = <<>> THEN w
  ELSE Notify(RunObserver(w, id, Head(observers), change), id,
              Tail(observers), change)

\* Unicode().validate / Int().validate
TraitAccepts(schemaType, v) == v.kind = schemaType

\* traitlet.<name> = v: a declared trait validates, stores, and notifies when
\* the stored value changes; any other name is a plain attribute.
TraitSet(w, id, name, v) ==
  LET cell == w.cells[id]
  IN IF name \notin DOMAIN cell.traitlet
     THEN Ok([w EXCEPT !.cells[id].attrs = MapSet(@, name, v)])
     ELSE IF ~TraitAccepts(SchemaType(cell.model.input_type, name), v)
     THEN Raise(w, "TraitError")
     ELSE LET old == cell.traitlet[name]
              w1 == [w EXCEPT !.cells[id].traitlet[name] = v]
          IN Ok(IF old = v THEN w1
                ELSE Notify(w1, id, cell.observers, Change(id, name, old, v)))

\* FormCell.value setter: the model first, then the traitlet.
ValueSetter(w, id, v) ==
  LET w1 == [w EXCEPT !.cells[id].model.value = v]
  IN TraitSet(w1, id, "value", v)

\* FormCell.value getter
ValueGetter(w, id) == Return(w, w.cells[id].model.value)

\* FormCell.observe(fn): fn is added to the observers of the traitlet, once.
Observe(w, id, fn) ==
  IF \E i \in 1..Len(w.cells[id].observers) : w.cells[id].observers[i] = fn
  THEN Ok(w)
  ELSE Ok([w EXCEPT !.cells[id].observers = Append(@, fn)])

\* Dropdown.options setter: an assignment to the attribute options of the
\* model itself. The model has the fields of ModelProperties, its options are
\* a key of its settings, and a pydantic model refuses an attribute that is
\* not one of its fields: a ValueError, with the model, the settings and the
\* traitlet as they were.
OptionsSetter(w, id, v) ==
  IF "options" \in ModelProperties
  THEN Ok([w EXCEPT !.cells[id].model = MapSet(@, "options", v)])
  ELSE Raise(w, "ValueError")

\* __repr__: the model's fields without input_type.
Repr(w, id) ==
  [k \in DOMAIN w.cells[id].model \ {"input_type"} |-> w.cells[id].model[k]]

\* _ipython_display_ sending its message through the update handler.
IpythonDisplay_AsUpdate(w, id) ==
  LET data == w.cells[id].model @@ ("id" :> id)
  IN Return([w EXCEPT !.sent =
               Append(@, [handler |-> "update_form_cell",
                          body |-> [data |-> data]])],
            Repr(w, id))

\* _ipython_display_: the model's fields and the cell's id sent as a
\* display_form_cell message, and the repr printed.
IpythonDisplay(w, id) ==
  LET data == w.cells[id].model @@ ("id" :> id)
  IN Return([w EXCEPT !.sent =
               Append(@, [handler |-> "display_form_cell",
                          body |-> [data |-> data]])],
            Repr(w, id))

(***************************************************************************)
(* Parser, update merger and inbound dispatch.                             *)
(***************************************************************************)
\* Is the cell bound to a namespace variable of an execution context?
Bound(cell) == cell.model.ipython_shell

\* parse_as_form_cell: the variant registered for the input_type, Custom for
\* any other, constructed from the message's fields other than input_type;
\* what the constructor raises reaches the caller; with an execution context
\* the value variable is created and the cell's value observer registered.
ParseAsFormCell(w, msg) ==
  LET variant == Variant(msg.input_type)
      id == Cardinality(DOMAIN w.cells) + 1
      kwargs == [k \in DOMAIN msg \ {"input_type"} |-> msg[k]]
      made == IF variant \in {"checkboxes", "custom"}
              THEN RegistryInit(variant, kwargs)
              ELSE SubclassInit(variant, kwargs)
      cell == IF msg.ipython_shell
              THEN [made.cell EXCEPT !.observers = Append(@, "_on_value_update")]
              ELSE made.cell
      w1 == [w EXCEPT !.cells = @ @@ (id :> cell)]
  IN IF made.err # "none"
     THEN Raise(w, made.err)
     ELSE Ok(IF msg.ipython_shell
             THEN SetKernelVariable(w1, cell.model.value_variable_name,
                                    cell.model.value)
             ELSE w1)

\* Key-by-key merge of a patch mapping into a mapping.
DeepMerge(base, patch) ==
  [k \in DOMAIN base \cup DOMAIN patch |->
     IF k \in DOMAIN patch THEN patch[k] ELSE base[k]]

\* update_form_cell assigning the patch's value even when the patch has none.
UpdateFormCell_AlwaysAssigns(w, id, patch) ==
  LET cell == w.cells[id]
      merged == DeepMerge(cell.model.settings, patch.settings)
      w1 == [w EXCEPT !.cells[id].model.settings = merged]
  IN ValueSetter(w1, id, patch.value)

\* update_form_cell replacing the settings by the patch's settings.
UpdateFormCell_ReplacesSettings(w, id, patch) ==
  LET cell == w.cells[id]
      w1 == [w EXCEPT !.cells[id].model.settings = patch.settings]
  IN IF patch.has_value /\ patch.value # cell.model.value
     THEN ValueSetter(w1, id, patch.value)
     ELSE Ok(w1)

\* update_form_cell: the patch's settings merged into the cell's settings key
\* by key, then a changed value assigned through the value setter.
UpdateFormCell(w, id, patch) ==
  LET cell == w.cells[id]
      merged == DeepMerge(cell.model.settings, patch.settings)
      w1 == [w EXCEPT !.cells[id].model.settings = merged]
  IN IF patch.has_value /\ patch.value # cell.model.value
     THEN ValueSetter(w1, id, patch.value)
     ELSE Ok(w1)

\* Inbound dispatch that looks the identity up without a default.
DispatchUpdate_RaisesOnUnknown(w, id, patch) ==
  IF id \in DOMAIN w.cells THEN UpdateFormCell(w, id, patch)
  ELSE Raise(w, "KeyError")

\* An inbound update message: applied to the cell it names, ignored when this
\* process has no such cell.
DispatchUpdate(w, id, patch) ==
  IF id \in DOMAIN w.cells THEN UpdateFormCell(w, id, patch) ELSE Ok(w)

(***************************************************************************)
(* Inputs.                                                                 *)
(***************************************************************************)
UnrecognizedType == "my_new_form_cell_type"

MsgTypes == RecognizedTypes \cup {UnrecognizedType}

VariableNames == {"test"}

\* Per input type: values of the declared type and one of another type.
ValueChoices(t) ==
  CASE t \in {"text", "dropdown"} -> {StrV("a"), IntV(1)}
    [] t = "datetime" -> {StrV(DatetimeWithZone), StrV(DatetimeCanonical), StrV("a")}
    [] t = "slider" -> {IntV(1), StrV("a")}
    [] t \in {"checkboxes", "multiselect"} -> {ListV(<<"a">>), StrV("a")}
    [] OTHER -> {StrV("a"), ListV(<<"a">>)}

\* Per input type: no settings, well-formed settings, settings with an unknown
\* key, settings with a wrongly typed value.
SettingsChoices(t) ==
  CASE t \in {"dropdown", "checkboxes", "multiselect"} ->
         { EmptyMap,
           [options |-> ListV(<<"a", "b", "c">>)],
           [options |-> ListV(<<"a", "b", "c">>), abc |-> StrV("def")],
           [options |-> StrV("a")] }
    [] t = "slider" ->
         { EmptyMap,
           [min |-> IntV(0), max |-> IntV(100), step |-> IntV(1)],
           [min |-> IntV(0), abc |-> StrV("def")],
           [min |-> StrV("a")] }
    [] t = "text" ->
         { EmptyMap,
           [min_length |-> IntV(0), max_length |-> IntV(1000)],
           [min_length |-> IntV(0), abc |-> StrV("def")],
           [max_length |-> StrV("a")] }
    [] t = "datetime" -> { EmptyMap, [abc |-> StrV("def")] }
    [] OTHER -> { EmptyMap, [abc |-> StrV("def")], [options |-> StrV("a")] }

\* Unknown top-level fields of a message.
ExtraChoices(t) ==
  IF t \in RecognizedTypes THEN {EmptyMap}
  ELSE {EmptyMap, [foo |-> StrV("bar")]}

MessagesOf(t) ==
  { [input_type |-> t, model_variable_name |-> n, value |-> v,
     variable_type |-> "str", settings |-> st, extra |-> x,
     ipython_shell |-> sh] :
      n \in VariableNames, v \in ValueChoices(t), st \in SettingsChoices(t),
      x \in ExtraChoices(t), sh \in BOOLEAN }

Messages == UNION { MessagesOf(t) : t \in MsgTypes }

PatchSettings ==
  { EmptyMap,
    [options |-> ListV(<<"a", "b", "x", "y">>)],
    [max |-> IntV(5)],
    [abc |-> StrV("z")] }

PatchValues == { StrV(""), StrV("a"), IntV(1), ListV(<<"b", "x">>) }

\* A patch without a value key carries no value.
Patches ==
  { [has_value |-> hv, value |-> v, settings |-> st] :
      hv \in {TRUE}, v \in PatchValues, st \in PatchSettings }
  \cup
  { [has_value |-> FALSE, value |-> NoneV, settings |-> st] :
      st \in PatchSettings }

EmptyPatch == [has_value |-> FALSE, value |-> NoneV, settings |-> EmptyMap]

(***************************************************************************)
(* The state machine.                                                      *)
(***************************************************************************)
Here == World(cells, ns, sent, heard)

\* One operation ran on the argument arg with the outcome r.
Step(op, id, arg, r) ==
  /\ cells' = r.w.cells
  /\ ns' = r.w.ns
  /\ sent' = r.w.sent
  /\ heard' = r.w.heard
  /\ last' = [op |-> op, id |-> id, err |-> r.err, arg |-> arg,
              ret |-> IF "ret" \in DOMAIN r THEN r.ret ELSE NoneV]
  /\ steps' = steps + 1

Init ==
  /\ cells = <<>>
  /\ ns = EmptyMap
  /\ sent = <<>>
  /\ heard = <<>>
  /\ last = [op |-> "init", id |-> 0, err |-> "none", arg |-> NoneV,
             ret |-> NoneV]
  /\ steps = 0

\* form_cell = parse_as_form_cell(msg)
ParseFormCell(msg) ==
  /\ steps < MaxSteps
  /\ LET r == ParseAsFormCell(Here, msg)
     IN /\ r.err = "none" => Cardinality(DOMAIN cells) < MaxCells
        /\ Step("parse",
                IF r.err = "none" THEN Cardinality(DOMAIN cells) + 1 ELSE 0,
                msg, r)

\* cell.value = v
SetValue(id, v) ==
  /\ steps < MaxSteps
  /\ id \in DOMAIN cells
  /\ Step("set_value", id, v, ValueSetter(Here, id, v))

\* update_form_cell(cell, patch)
UpdateCell(id, patch) ==
  /\ steps < MaxSteps
  /\ id \in DOMAIN cells
  /\ Step("update", id, patch, UpdateFormCell(Here, id, patch))

\* An update message from the sidecar arrives for the identity id.
InboundUpdate(id, patch) ==
  /\ steps < MaxSteps
  /\ Step("inbound", id, patch, DispatchUpdate(Here, id, patch))

Next ==
  \/ \E msg \in Messages : ParseFormCell(msg)
  \/ \E id \in CellIds, v \in Values : SetValue(id, v)
  \/ \E id \in CellIds, patch \in Patches : UpdateCell(id, patch)
  \/ \E id \in CellIds \cup {ForeignId}, patch \in Patches : InboundUpdate(id, patch)

Spec == Init /\ [][Next]_vars

(***************************************************************************)
(* Live cells: two cells already parsed, then assignments, updates, reads, *)
(* displays, listeners, option changes and writes of other code to the     *)
(* namespace.                                                              *)
(***************************************************************************)
LiveNames == {"test", "other"}

LiveMessages ==
  { [input_type |-> t.type, model_variable_name |-> n, value |-> t.value,
     variable_type |-> "str", settings |-> t.settings, extra |-> EmptyMap,
     ipython_shell |-> sh] :
      t \in { [type |-> "text", value |-> StrV("a"),
               settings |-> [min_length |-> IntV(0), max_length |-> IntV(1000)]],
              [type |-> "dropdown", value |-> StrV("a"),
               settings |-> [options |-> ListV(<<"a", "b", "c">>)]],
              [type |-> "checkboxes", value |-> ListV(<<"a">>),
               settings |-> [options |-> ListV(<<"a", "b", "c">>)]] },
      n \in LiveNames, sh \in BOOLEAN }

LiveValues == { StrV(""), StrV("b"), IntV(1), ListV(<<"b", "x">>) }

LivePatches ==
  { EmptyPatch,
    [has_value |-> FALSE, value |-> NoneV,
     settings |-> [options |-> ListV(<<"a", "b", "x", "y">>)]],
    [has_value |-> TRUE, value |-> ListV(<<"b", "x">>),
     settings |-> [options |-> ListV(<<"a", "b", "x", "y">>)]],
    [has_value |-> TRUE, value |-> StrV("b"), settings |-> EmptyMap] }

LiveOptions == { ListV(<<"x">>) }

\* Two calls of parse_as_form_cell on a fresh kernel.
InitLive ==
  \E m1 \in LiveMessages, m2 \in LiveMessages :
    LET r1 == ParseAsFormCell(World(<<>>, EmptyMap, <<>>, <<>>), m1)
        r2 == ParseAsFormCell(r1.w, m2)
    IN /\ cells = r2.w.cells
       /\ ns = r2.w.ns
       /\ sent = r2.w.sent
       /\ heard = r2.w.heard
       /\ last = [op |-> "parse", id |-> 2, err |-> r2.err, arg |-> m2,
                  ret |-> NoneV]
       /\ steps = 0

\* v = cell.value
GetValue(id) ==
  /\ steps < MaxSteps
  /\ id \in DOMAIN cells
  /\ Step("get_value", id, NoneV, ValueGetter(Here, id))

\* display(cell)
Display(id) ==
  /\ steps < MaxSteps
  /\ id \in DOMAIN cells
  /\ Step("display", id, NoneV, IpythonDisplay(Here, id))

\* cell.observe(listener)
AddListener(id) ==
  /\ steps < MaxSteps
  /\ id \in DOMAIN cells
  /\ Step("observe", id, NoneV, Observe(Here, id, "listener"))

\* dropdown.options = v
SetOptions(id, v) ==
  /\ steps < MaxSteps
  /\ id \in DOMAIN cells
  /\ cells[id].model.input_type = "dropdown"
  /\ Step("set_options", id, v, OptionsSetter(Here, id, v))

\* Code of the user's notebook, or the variable explorer, assigns a variable.
KernelSet(name, v) ==
  /\ steps < MaxSteps
  /\ Step("set_kernel_variable", 0, [name |-> name, value |-> v],
          Return(SetKernelVariable(Here, name, v), "success"))

NextLive ==
  \/ \E id \in CellIds, v \in LiveValues : SetValue(id, v)
  \/ \E id \in CellIds, patch \in LivePatches : UpdateCell(id, patch)
  \/ \E id \in CellIds : GetValue(id)
  \/ \E id \in CellIds : Display(id)
  \/ \E id \in CellIds : AddListener(id)
  \/ \E id \in CellIds, v \in LiveOptions : SetOptions(id, v)
  \/ \E n \in LiveNames, v \in LiveValues : KernelSet(n \o "_value", v)

SpecLive == InitLive /\ [][NextLive]_vars

(***************************************************************************)
(* Variable explorer (handlers/variable_explorer.py): the snapshot of the  *)
(* kernel namespace and the renaming of a variable.                        *)
(***************************************************************************)
MAX_STRING_LENGTH == 1000

\* A Python object by what its inspection does: the name of its type, what
\* reading __doc__ and __module__ gives, what len() gives, what
\* sys.getsizeof gives (NoneV when it and memory_usage() raise), whether
\* json.dumps takes it, what repr() gives, and whether it has the attributes
\* columns, index and dtypes.
Object(type, doc, module, len, sizeof, json, repr, frame) ==
  [type |-> type, doc |-> doc, module |-> module, len |-> len,
   sizeof |-> sizeof, json |-> json, repr |-> repr, frame |-> frame]

\* What an inspection that fails raises.
Boom == "ValueError('boom')"

Objects ==
  { Object("int", "doc", "none", "none", IntV(28), TRUE, "repr", FALSE),
    Object("str", "doc", "none", "int", IntV(5000), TRUE, "repr", FALSE),
    Object("Sized", "doc", "module", "raises", IntV(48), FALSE, "repr", FALSE),
    Object("Heavy", "doc", "module", "none", NoneV, FALSE, "repr", FALSE),
    Object("Blob", "doc", "module", "none", IntV(5000), FALSE, "raises", FALSE),
    Object("Mute", "doc", "module", "none", IntV(48), FALSE, "raises", FALSE),
    Object("DataFrame", "doc", "module", "none", IntV(48), FALSE, "repr", FALSE),
    Object("Undocumented", "raises", "module", "none", IntV(48), FALSE, "repr", FALSE),
    Object("Homeless", "doc", "raises", "none", IntV(48), FALSE, "repr", FALSE) }

\* The outcome of an inspection: a value, or the exception it raised.
Got(v) == [err |-> "none", ret |-> v]
Threw(e) == [err |-> e, ret |-> NoneV]

\* getattr(value, name, None) lets every exception but AttributeError through.
GetAttr(attr) ==
  CASE attr = "raises" -> Threw(Boom)
    [] attr = "none" -> Got(NoneV)
    [] OTHER -> Got(StrV(attr))

VariableDocstring(value) == GetAttr(value.doc)

VariableType(value) == value.type

\* repr(value)[:max_length]
VariableStringRepr(value) ==
  IF value.repr = "raises" THEN Threw(Boom) ELSE Got(StrV(value.repr))

\* hasattr(value, "__len__") and len(value)
VariableSize(value) ==
  CASE value.len = "raises" -> Threw(Boom)
    [] value.len = "none" -> Got(NoneV)
    [] OTHER -> Got(StrV(value.len))

\* Both attempts guarded: None when neither gives a size.
VariableSizeBytes(value) == value.sizeof

\* The value itself when small, its truncated repr when large; the
\* comparison of the byte size with max_length raises on None.
VariableSampleValue(value) ==
  IF VariableSizeBytes(value).kind = "null" THEN Threw("TypeError")
  ELSE IF VariableSizeBytes(value).n > MAX_STRING_LENGTH
  THEN LET r == VariableStringRepr(value)
       IN IF r.err # "none" THEN r ELSE Got(StrV(r.ret.s \o "..."))
  ELSE Got([kind |-> "object", s |-> value.type, n |-> 0, l |-> <<>>])

\* columns, index and dtypes of anything whose type is named DataFrame.
VariableExtraProperties(value) ==
  IF VariableType(value) = "DataFrame" /\ ~value.frame
  THEN Threw("AttributeError")
  ELSE Got(NoneV)

BasicProps(name, value) ==
  [name |-> name, type |-> VariableType(value),
   docstring |-> VariableDocstring(value).ret,
   module |-> GetAttr(value.module).ret,
   sample_value |-> NoneV, size |-> NoneV, size_bytes |-> NoneV,
   error |-> NoneV]

\* variable_to_model: the basic properties first, outside the try; then sample
\* value, size, byte size and extra properties, in this order, inside it.
VariableToModel(name, value) ==
  LET sample == VariableSampleValue(value)
      size == VariableSize(value)
      extra == VariableExtraProperties(value)
      first == CASE sample.err # "none" -> sample.err
                 [] size.err # "none" -> size.err
                 [] extra.err # "none" -> extra.err
                 [] OTHER -> "none"
  IN IF VariableDocstring(value).err # "none" THEN Threw(VariableDocstring(value).err)
     ELSE IF GetAttr(value.module).err # "none" THEN Threw(GetAttr(value.module).err)
     ELSE IF first # "none"
     THEN Got([BasicProps(name, value) EXCEPT !.error = StrV(first)])
     ELSE Got([BasicProps(name, value) EXCEPT
                 !.sample_value = sample.ret, !.size = size.ret,
                 !.size_bytes = VariableSizeBytes(value)])

\* json_clean of the fields of one entry: a sample value json.dumps does not
\* take becomes its repr.
JsonClean(value, entry) ==
  IF entry.sample_value.kind = "object" /\ ~value.json
  THEN LET r == VariableStringRepr(value)
       IN IF r.err # "none" THEN r
          ELSE Got([entry EXCEPT !.sample_value = r.ret])
  ELSE Got(entry)

\* name.startswith(prefix)
StartsWith(name, prefix) ==
  Len(name) >= Len(prefix) /\ SubSeq(name, 1, Len(prefix)) = prefix

DefaultSkipPrefixes == {"_", "In", "Out", "get_ipython", "exit", "quit", "open"}

Skipped(name, skip_prefixes) ==
  \E prefix \in (IF skip_prefixes = {} THEN DefaultSkipPrefixes ELSE skip_prefixes) :
    StartsWith(name, prefix)

\* The entry of one variable, cleaned.
Entry(name, value) ==
  LET m == VariableToModel(name, value)
  IN IF m.err # "none" THEN m ELSE JsonClean(value, m.ret)

\* get_kernel_variables: one cleaned entry per variable that is not skipped;
\* an exception out of an entry ends the call.
GetKernelVariables(w, skip_prefixes) ==
  LET names == {n \in DOMAIN w.ns : ~Skipped(n, skip_prefixes)}
  IN IF \E n \in names : Entry(n, w.ns[n]).err # "none"
     THEN Raise(w, "ValueError")
     ELSE Return(w, [n \in names |-> Entry(n, w.ns[n]).ret])

\* rename_kernel_variable: the new name bound first, then the old one deleted.
RenameKernelVariable(w, old_name, new_name) ==
  IF old_name \notin DOMAIN w.ns
  THEN Return(w, "'" \o old_name \o "'")
  ELSE LET ns1 == IF new_name # ""
                  THEN MapSet(w.ns, new_name, w.ns[old_name])
                  ELSE w.ns
           ns2 == [n \in DOMAIN ns1 \ {old_name} |-> ns1[n]]
       IN Return([w EXCEPT !.ns = ns2], "success")

ExplorerNames == {"x", "y", "_hidden"}

RenameOldNames == {"x", "y", "missing"}

RenameNewNames == {"", "x", "z"}

SkipPrefixChoices == { {}, {"x"} }

\* A kernel holding some of the names, each bound to one of the objects.
InitExplorer ==
  /\ \E bound \in SUBSET ExplorerNames :
       ns \in [bound -> Objects]
  /\ cells = <<>>
  /\ sent = <<>>
  /\ heard = <<>>
  /\ last = [op |-> "init", id |-> 0, err |-> "none", arg |-> NoneV,
             ret |-> NoneV]
  /\ steps = 0

\* The sidecar asks for the variables.
ListVariables(skip_prefixes) ==
  /\ steps < MaxSteps
  /\ Step("get_kernel_variables", 0, skip_prefixes,
          GetKernelVariables(Here, skip_prefixes))

\* The sidecar renames a variable.
RenameVariable(old_name, new_name) ==
  /\ steps < MaxSteps
  /\ Step("rename_kernel_variable", 0,
          [old_name |-> old_name, new_name |-> new_name],
          RenameKernelVariable(Here, old_name, new_name))

NextExplorer ==
  \/ \E skip_prefixes \in SkipPrefixChoices : ListVariables(skip_prefixes)
  \/ \E old_name \in RenameOldNames, new_name \in RenameNewNames :
       RenameVariable(old_name, new_name)

SpecExplorer == InitExplorer /\ [][NextExplorer]_vars

(***************************************************************************)
(* Properties.                                                             *)
(***************************************************************************)
\* The step just taken was the operation op.
Did(op) == last'.op = op /\ steps' = steps + 1

\* The cell id is the only live cell writing its namespace variable.
SoleWriter(id) ==
  \A other \in DOMAIN cells \ {id} :
    cells[other].model.value_variable_name # cells[id].model.value_variable_name

\* The last message sent is the update_form_cell message of cell id for the
\* new value v, without an owner key.
IsUpdateMessage(m, id, v) ==
  /\ m.handler = "update_form_cell"
  /\ m.body.data.id = id
  /\ m.body.data.new = v
  /\ "owner" \notin DOMAIN m.body.data

\* C1: the namespace variable value_variable_name of a cell created with an
\* execution context exists and equals cell.value after creation and after
\* every sequence of successful value assignments and updates on the cell.
C1_NamespaceMirrorsValue ==
  last.err = "none" =>
    \A id \in DOMAIN cells :
      (Bound(cells[id]) /\ SoleWriter(id)) =>
        /\ cells[id].model.value_variable_name \in DOMAIN ns
        /\ ns[cells[id].model.value_variable_name] = cells[id].model.value

\* C2: a value assignment that changes cell.value sends exactly one
\* update_form_cell message carrying the new value and the cell's identity and
\* no owner key.
C2_AssignmentSendsOneUpdate ==
  [][(Did("set_value")
        /\ cells'[last'.id].model.value # cells[last'.id].model.value)
      => /\ Len(sent') = Len(sent) + 1
         /\ SubSeq(sent', 1, Len(sent)) = sent
         /\ IsUpdateMessage(sent'[Len(sent')], last'.id, last'.arg)]_vars

\* C3: a rejected value assignment leaves the cells, the namespace and the
\* outbound messages exactly as they were.
C3_RejectedAssignmentChangesNothing ==
  [][(Did("set_value") /\ last'.err # "none")
      => (cells' = cells /\ ns' = ns /\ sent' = sent)]_vars

\* C4: update_form_cell merges: settings keys absent from the patch are kept,
\* keys of the patch take the patch's value, attributes the patch does not
\* name are unchanged, and a value in the patch replaces the old value.
C4_UpdateIsDeepMerge ==
  [][Did("update")
      => LET p == last'.arg
             old == cells[last'.id].model
             new == cells'[last'.id].model
         IN /\ DOMAIN new.settings = DOMAIN old.settings \cup DOMAIN p.settings
            /\ \A k \in DOMAIN old.settings \ DOMAIN p.settings :
                 new.settings[k] = old.settings[k]
            /\ \A k \in DOMAIN p.settings : new.settings[k] = p.settings[k]
            /\ new.value = IF p.has_value THEN p.value ELSE old.value
            /\ new.input_type = old.input_type
            /\ new.model_variable_name = old.model_variable_name
            /\ new.value_variable_name = old.value_variable_name
            /\ new.variable_type = old.variable_type
            /\ new.extra = old.extra]_vars

\* A settings-only patch replaced max on a slider and kept min and the value.
C4_Witness ==
  /\ last.op = "update"
  /\ last.err = "none"
  /\ ~last.arg.has_value
  /\ DOMAIN last.arg.settings = {"max"}
  /\ cells[last.id].model.settings = [min |-> IntV(0), max |-> IntV(5), step |-> IntV(1)]
  /\ cells[last.id].model.value = IntV(1)

\* C5: an update whose value differs from the cell's value leaves the bound
\* namespace variable equal to the new value and sends the update_form_cell
\* message for it, as the value assignment does.
C5_UpdateValueKeepsInSync ==
  [][(Did("update") /\ last'.err = "none" /\ last'.arg.has_value
        /\ last'.arg.value # cells[last'.id].model.value)
      => LET id == last'.id
             name == cells[id].model.value_variable_name
         IN /\ cells'[id].model.value = last'.arg.value
            /\ Bound(cells[id]) => (name \in DOMAIN ns' /\ ns'[name] = last'.arg.value)
            /\ Len(sent') = Len(sent) + 1
            /\ IsUpdateMessage(sent'[Len(sent')], id, last'.arg.value)]_vars

\* C6: update_form_cell with an empty patch succeeds on the same cell and
\* changes no cell, no namespace variable and sends nothing.
C6_EmptyPatchIsNoOp ==
  [][(Did("update") /\ last'.arg = EmptyPatch)
      => /\ last'.err = "none"
         /\ last'.id \in DOMAIN cells'
         /\ cells' = cells
         /\ ns' = ns
         /\ sent' = sent]_vars

\* An empty patch was applied to a bound cell that has a value and settings.
C6_Witness ==
  /\ last.op = "update"
  /\ last.arg = EmptyPatch
  /\ Bound(cells[last.id])
  /\ DOMAIN cells[last.id].model.settings # {}
  /\ cells[last.id].model.value = ListV(<<"a">>)

C8_ParsedEqualsMessage ==
  (last.op = "parse" /\ last.arg.input_type \in RecognizedTypes
     /\ ValidSettings(last.arg.input_type, last.arg.settings)
     /\ AcceptsValue(last.arg.input_type, last.arg.value)) =>
    /\ last.err = "none"
    /\ cells[last.id].model.input_type = last.arg.input_type
    /\ cells[last.id].model.model_variable_name = last.arg.model_variable_name
    /\ cells[last.id].model.value = last.arg.value
    /\ cells[last.id].model.settings = last.arg.settings

\* The settings of the message have a key outside the schema of its type or
\* a value of the wrong type.
MalformedSettings(msg) ==
  \E k \in DOMAIN msg.settings :
    \/ k \notin SettingsKeys(msg.input_type)
    \/ msg.settings[k].kind # (IF k = "options" THEN "array" ELSE "integer")

\* C9: a parse fails with a ValidationError exactly when the input_type is
\* recognized and the settings are malformed; a failed parse leaves the
\* cells, the namespace and the outbound messages as they were; a message with
\* an unrecognized input_type never fails.
C9_ParseFailsOnlyOnMalformedSettings ==
  [][Did("parse")
      => /\ last'.err = "ValidationError"
              <=> (last'.arg.input_type \in RecognizedTypes
                     /\ MalformedSettings(last'.arg))
         /\ last'.err # "none" => (cells' = cells /\ ns' = ns /\ sent' = sent)
         /\ last'.arg.input_type \notin RecognizedTypes => last'.err = "none"]_vars

\* C10: an inbound update for an identity without a cell raises nothing and
\* changes nothing; one for a live cell does what update_form_cell does on that
\* cell and leaves the other cells as they were.
C10_InboundUpdateByIdentity ==
  [][Did("inbound")
      => IF last'.id \notin DOMAIN cells
         THEN /\ last'.err = "none"
              /\ cells' = cells /\ ns' = ns /\ sent' = sent
         ELSE LET r == UpdateFormCell(Here, last'.id, last'.arg)
              IN /\ last'.err = r.err
                 /\ cells' = r.w.cells /\ ns' = r.w.ns /\ sent' = r.w.sent
                 /\ \A other \in DOMAIN cells \ {last'.id} :
                      cells'[other] = cells[other]]_vars

\* An update with a value and settings arrived for an identity without a
\* cell while a bound cell that the patch would change was alive.
C10_Witness ==
  /\ last.op = "inbound"
  /\ last.id \notin DOMAIN cells
  /\ last.arg.has_value
  /\ DOMAIN last.arg.settings = {"options"}
  /\ \E id \in DOMAIN cells :
       /\ Bound(cells[id])
       /\ cells[id].model.input_type = "checkboxes"
       /\ cells[id].model.value # last.arg.value

\* C11: on a cell created without an execution context every valid value
\* assignment and every valid update with a value succeeds, stores the value,
\* sends the update_form_cell message for a changed value, and writes no
\* namespace variable.
C11_UnboundCellStillWorks ==
  [][/\ (Did("set_value") /\ ~Bound(cells[last'.id])
           /\ AcceptsValue(cells[last'.id].model.input_type, last'.arg))
        => /\ last'.err = "none"
           /\ cells'[last'.id].model.value = last'.arg
           /\ ns' = ns
           /\ last'.arg # cells[last'.id].model.value
                => /\ Len(sent') = Len(sent) + 1
                   /\ IsUpdateMessage(sent'[Len(sent')], last'.id, last'.arg)
     /\ (Did("update") /\ ~Bound(cells[last'.id]) /\ last'.arg.has_value
           /\ ValidSettings(cells[last'.id].model.input_type,
                            DeepMerge(cells[last'.id].model.settings,
                                      last'.arg.settings))
           /\ AcceptsValue(cells[last'.id].model.input_type, last'.arg.value))
        => /\ last'.err = "none"
           /\ cells'[last'.id].model.value = last'.arg.value
           /\ ns' = ns
           /\ last'.arg.value # cells[last'.id].model.value
                => /\ Len(sent') = Len(sent) + 1
                   /\ IsUpdateMessage(sent'[Len(sent')], last'.id,
                                      last'.arg.value)]_vars

\* C12: every step keeps every cell's input_type, and the settings of every
\* cell are of the shape of its input_type: for a recognized type no key
\* outside the schema and every value of the schema's type; an update adds or
\* replaces keys of the patch only.
C12_SettingsShapeFixed ==
  [][/\ \A id \in DOMAIN cells' :
          ValidSettings(cells'[id].model.input_type, cells'[id].model.settings)
     /\ \A id \in DOMAIN cells :
          /\ id \in DOMAIN cells'
          /\ cells'[id].model.input_type = cells[id].model.input_type
          /\ DOMAIN cells[id].model.settings \subseteq DOMAIN cells'[id].model.settings
          /\ \A k \in DOMAIN cells[id].model.settings :
               cells'[id].model.settings[k] # cells[id].model.settings[k]
                 => /\ last'.op \in {"update", "inbound"}
                    /\ last'.id = id
                    /\ k \in DOMAIN last'.arg.settings]_vars

\* C13: reading cell.value returns the value, sends nothing and changes
\* nothing; displaying a cell sends exactly one display_form_cell message
\* whose data holds every model field and the cell's identity, and changes no
\* cell, no namespace variable and sends no update_form_cell message.
C13_ReadAndDisplayHaveNoSideEffects ==
  [][/\ Did("get_value")
        => /\ last'.ret = cells[last'.id].model.value
           /\ cells' = cells /\ ns' = ns /\ sent' = sent /\ heard' = heard
     /\ Did("display")
        => /\ cells' = cells /\ ns' = ns /\ heard' = heard
           /\ Len(sent') = Len(sent) + 1
           /\ SubSeq(sent', 1, Len(sent)) = sent
           /\ LET m == sent'[Len(sent')]
                  model == cells[last'.id].model
              IN /\ m.handler = "display_form_cell"
                 /\ DOMAIN m.body.data = DOMAIN model \cup {"id"}
                 /\ m.body.data.id = last'.id
                 /\ \A k \in DOMAIN model : m.body.data[k] = model[k]]_vars

\* A bound cell was displayed after an assignment that had sent an update.
C13_Witness ==
  /\ last.op = "display"
  /\ Bound(cells[last.id])
  /\ Len(sent) = 2
  /\ sent[1].handler = "update_form_cell"
  /\ sent[2].handler = "display_form_cell"
  /\ sent[2].body.data.value = cells[last.id].model.value

\* Some inspection of the object raises.
InspectionFails(value) ==
  \/ value.doc = "raises"
  \/ value.module = "raises"
  \/ value.len = "raises"
  \/ value.sizeof.kind = "null"
  \/ value.repr = "raises"
  \/ (value.type = "DataFrame" /\ ~value.frame)

\* C14: get_kernel_variables never raises and returns one entry for each
\* variable whose name starts with no skipped prefix; the entry has the
\* variable's name and type, and a non-empty error string when an inspection
\* of the variable fails.
C14_SnapshotNeverAborts ==
  [][Did("get_kernel_variables")
      => /\ last'.err = "none"
         /\ DOMAIN last'.ret = {n \in DOMAIN ns : ~Skipped(n, last'.arg)}
         /\ \A n \in DOMAIN last'.ret :
              /\ last'.ret[n].name = n
              /\ last'.ret[n].type = ns[n].type
              /\ InspectionFails(ns[n])
                   => /\ last'.ret[n].error.kind = "string"
                      /\ last'.ret[n].error.s # ""]_vars

\* C15: the value of a parsed datetime cell is the message's date-time in the
\* form YYYY-MM-DDTHH:MM, its first sixteen characters, without seconds and
\* timezone; the canonical form of a canonical value is the value itself.
C15_DatetimeCanonicalized ==
  (last.op = "parse" /\ last.err = "none" /\ last.arg.input_type = "datetime") =>
    LET given == last.arg.value
        stored == cells[last.id].model.value
    IN /\ stored.kind = "string"
       /\ Len(stored.s) = 16
       /\ stored.s = SubSeq(given.s, 1, 16)
       /\ given.s = "2023-01-01T00:00:00Z" => stored.s = "2023-01-01T00:00"
       /\ AcceptsValue("datetime", stored)
       /\ CoerceValue("datetime", stored) = stored

\* A datetime message whose value was canonical already was parsed.
C15_Witness ==
  /\ last.op = "parse"
  /\ last.err = "none"
  /\ last.arg.input_type = "datetime"
  /\ last.arg.value = StrV(DatetimeCanonical)
  /\ cells[last.id].model.value = last.arg.value

\* C16: a value assignment, an update or a display on one cell leaves the
\* value and the settings of every other cell as they were, and leaves the
\* namespace variable of every other bound cell equal to that cell's value
\* when it was so before, whatever the model_variable_name of the two cells.
C16_CellsAreIndependent ==
  [][(Did("set_value") \/ Did("update") \/ Did("display"))
      => \A other \in DOMAIN cells \ {last'.id} :
           LET name == cells[other].model.value_variable_name
           IN /\ cells'[other].model.value = cells[other].model.value
              /\ cells'[other].model.settings = cells[other].model.settings
              /\ (Bound(cells[other]) /\ name \in DOMAIN ns
                    /\ ns[name] = cells[other].model.value)
                 => (name \in DOMAIN ns'
                       /\ ns'[name] = cells'[other].model.value)]_vars

\* C17: a write of other code to a cell's namespace variable changes no cell
\* and sends nothing; reading, displaying, observing and setting options do
\* not write the namespace; and a successful value assignment that follows
\* the write on a bound cell leaves the variable equal to the assigned value.
C17_ExternalOverwriteNotObserved ==
  [][/\ Did("set_kernel_variable")
        => (cells' = cells /\ sent' = sent /\ heard' = heard)
     /\ (Did("get_value") \/ Did("display") \/ Did("observe")
           \/ Did("set_options"))
        => ns' = ns
     /\ (Did("set_value") /\ last'.err = "none"
           /\ last.op = "set_kernel_variable"
           /\ Bound(cells[last'.id])
           /\ last.arg.name = cells[last'.id].model.value_variable_name)
        => ns'[last.arg.name] = last'.arg]_vars

\* The cell has a listener registered with observe().
HasListener(cell) ==
  \E i \in 1..Len(cell.observers) : cell.observers[i] = "listener"

\* C18: a successful value assignment or options assignment that changes
\* the field of a cell with a registered listener calls the listener once,
\* with the field's name, its old value and its new value, and sends the
\* update_form_cell message as well.
C18_ListenersHearEveryMutation ==
  [][/\ (Did("set_value") /\ last'.err = "none"
           /\ HasListener(cells[last'.id])
           /\ last'.arg # cells[last'.id].model.value)
        => /\ Len(heard') = Len(heard) + 1
           /\ heard'[Len(heard')].name = "value"
           /\ heard'[Len(heard')].old = cells[last'.id].model.value
           /\ heard'[Len(heard')].new = last'.arg
           /\ Len(sent') = Len(sent) + 1
     /\ (Did("set_options") /\ last'.err = "none"
           /\ HasListener(cells[last'.id])
           /\ ("options" \in DOMAIN cells[last'.id].model
                 => last'.arg # cells[last'.id].model.options))
        => /\ Len(heard') = Len(heard) + 1
           /\ heard'[Len(heard')].name = "options"
           /\ ("options" \in DOMAIN cells[last'.id].model
                 => heard'[Len(heard')].old = cells[last'.id].model.options)
           /\ heard'[Len(heard')].new = last'.arg
           /\ Len(sent') = Len(sent) + 1]_vars

\* C19: in every state the value of every cell's model equals the value its
\* traitlet holds, as a trait or, where the traitlet has no value trait, as
\* the attribute the setter assigned.
C19_ModelAndTraitletAgree ==
  \A id \in DOMAIN cells :
    LET cell == cells[id]
    IN IF "value" \in DOMAIN cell.traitlet
       THEN cell.traitlet.value = cell.model.value
       ELSE /\ "value" \in DOMAIN cell.attrs
            /\ cell.attrs.value = cell.model.value

\* C20: rename_kernel_variable with a bound old name and a non-empty new name,
\* the old name included, returns "success" and leaves the new name bound to
\* the old name's value; with an old name that is not bound it returns another
\* string and leaves the namespace as it was; with an empty new name it removes
\* the old name only; it changes no variable of another name.
C20_RenameLosesNoValue ==
  [][Did("rename_kernel_variable")
      => LET old_name == last'.arg.old_name
             new_name == last'.arg.new_name
         IN /\ (old_name \in DOMAIN ns /\ new_name # "")
               => /\ last'.ret = "success"
                  /\ new_name \in DOMAIN ns'
                  /\ ns'[new_name] = ns[old_name]
            /\ old_name \notin DOMAIN ns
               => (last'.ret # "success" /\ ns' = ns)
            /\ (old_name \in DOMAIN ns /\ new_name = "")
               => /\ last'.ret = "success"
                  /\ DOMAIN ns' = DOMAIN ns \ {old_name}
            /\ DOMAIN ns' \subseteq DOMAIN ns \cup {new_name}
            /\ \A n \in DOMAIN ns \ {old_name, new_name} :
                 n \in DOMAIN ns' /\ ns'[n] = ns[n]]_vars

====
